---- MODULE Spec2Model ----
(***************************************************************************)
(* Snap & Speak: the response interpreter (analyzeImage), the analysis     *)
(* state machine (ImageAnalyzer), the camera capture view (CameraCapture)  *)
(* and the speech announcer (speak), as one state machine.                 *)
(*                                                                         *)
(* Every handler runs to completion on the single JavaScript thread, so    *)
(* each action is one handler, or the part of an async function between    *)
(* two awaits, with the state updates it batches.                          *)
(***************************************************************************)
EXTENDS Integers, Sequences, FiniteSets, TLC

\* Bounds of the model.
MaxCaptures == 2
MaxOpens == 2
MaxTextLen == 6

(***************************************************************************)
(* JavaScript values.                                                      *)
(***************************************************************************)

\* The value of a property that is not there.
UNDEF == "<undefined>"

\* useState<string | null>(null) for the error message.
NoError == "<null>"

\* The utterance queue of speechSynthesis with nothing speaking or queued.
NoUtterance == << >>

\* useState<string | null>(null) for the preview URL.
NoPreview == [kind |-> "none", id |-> 0]

BlobUrl(c) == [kind |-> "blob", id |-> c]

DataUrl(c) == [kind |-> "data", id |-> c]

\* imagePreviewUrl && imagePreviewUrl.startsWith('blob:')
IsBlobUrl(url) == url.kind = "blob"

NoKeywords == [kind |-> "undefined", items |-> << >>]

NoPhonetics == [present |-> FALSE, map |-> {}]

Keywords(items) == [kind |-> "array", items |-> items]

Phonetics(map) == [present |-> TRUE, map |-> map]

JsObject(d, k, p) == [type |-> "object", description |-> d, keywords |-> k, phonetics |-> p]

\* A value with no own properties that matter here: result.description and
\* result.keywords read as undefined.
JsPrimitive(t) == [type |-> t, description |-> UNDEF, keywords |-> NoKeywords, phonetics |-> NoPhonetics]

\* useState<AnalysisResult | null>(null).
NoResult == JsPrimitive("none")

\* A thrown or rejected value.
Thrown(cls, msg) == [cls |-> cls, message |-> msg]

NoThrow == Thrown("none", "")

\* !v for a string-or-undefined value.
Falsy(v) == v = UNDEF \/ v = ""

\* Array.isArray(v)
IsArray(v) == v.kind = "array"

\* err instanceof Error (SyntaxError and TypeError are subclasses).
InstanceOfError(e) == e.cls \in {"Error", "SyntaxError", "TypeError"}

\* error instanceof SyntaxError
InstanceOfSyntaxError(e) == e.cls = "SyntaxError"

(***************************************************************************)
(* Response text: a sequence of tokens.  "F" is the fence ```, "j" the     *)
(* tag json, "w" one whitespace character, "x" text that is no JSON, and   *)
(* every other token the text of one JSON value.                           *)
(***************************************************************************)

JsonValueOf(tok) ==
  CASE tok = "pCat"       -> JsObject("A cat.", Keywords(<<"cat">>), Phonetics({<<"cat", "kat">>}))
    [] tok = "pNoDesc"    -> JsObject(UNDEF, Keywords(<<"cat">>), NoPhonetics)
    [] tok = "pEmptyDesc" -> JsObject("", Keywords(<<"cat">>), NoPhonetics)
    [] tok = "pNoKw"      -> JsObject("A cat.", NoKeywords, NoPhonetics)
    [] tok = "pKwString"  -> JsObject("A cat.", [kind |-> "string", items |-> <<"cat">>], NoPhonetics)
    [] tok = "pNull"      -> JsPrimitive("null")
    [] tok = "pNumber"    -> JsPrimitive("number")
    [] tok = "pArray"     -> JsPrimitive("array")

JsonAtoms == {"pCat", "pNoDesc", "pEmptyDesc", "pNoKw", "pKwString", "pNull", "pNumber", "pArray"}

(***************************************************************************)
(* analyzeImage: response cleaning, decoding and validation.               *)
(***************************************************************************)

\* The number of whitespace characters of t from position p on.
RECURSIVE WsRun(_, _)
WsRun(t, p) == IF p <= Len(t) /\ t[p] = "w" THEN 1 + WsRun(t, p + 1) ELSE 0

\* \s*``` at position e: the greedy \s* first takes the whole run and gives
\* characters back until ``` follows.
TailMatches(t, e) == \E m \in 0..WsRun(t, e) : e + m <= Len(t) /\ t[e + m] = "F"

\* The ways jsonRegex matches when it starts at position i: ```json, then
\* \s* taking k characters, then the group taking n characters, then \s*```.
Attempts(t, i) ==
  IF i + 1 <= Len(t) /\ t[i] = "F" /\ t[i + 1] = "j"
  THEN {a \in (0..WsRun(t, i + 2)) \X (0..Len(t)) :
          /\ i + 2 + a[1] + a[2] <= Len(t) + 1
          /\ TailMatches(t, i + 2 + a[1] + a[2])}
  ELSE {}

\* The way the backtracking matcher finds first: the greedy \s* as long as
\* it can be, and for that the lazy group as short as it can be.
FirstAttempt(t, i) ==
  CHOOSE a \in Attempts(t, i) :
    \A b \in Attempts(t, i) : a[1] > b[1] \/ (a[1] = b[1] /\ a[2] <= b[2])

\* responseText.match(jsonRegex): where the leftmost match starts, 0 for null.
MatchStart(t) ==
  IF \E i \in 1..Len(t) : Attempts(t, i) # {}
  THEN CHOOSE i \in 1..Len(t) :
         /\ Attempts(t, i) # {}
         /\ \A h \in 1..(i - 1) : Attempts(t, h) = {}
  ELSE 0

\* match[1], the captured group.
Group1(t, i) ==
  LET a == FirstAttempt(t, i)
  IN  SubSeq(t, i + 2 + a[1], i + 1 + a[1] + a[2])

\* CleanText taking match[0], the whole match with its delimiters, for the
\* group.
CleanTextWholeMatch(t) ==
  IF MatchStart(t) = 0
  THEN t
  ELSE LET i == MatchStart(t)
           a == FirstAttempt(t, i)
           e == i + 2 + a[1] + a[2]
       IN  SubSeq(t, i, e + WsRun(t, e))

\* const cleanText = match ? match[1] : responseText;
CleanText(t) == IF MatchStart(t) = 0 THEN t ELSE Group1(t, MatchStart(t))

CouldNotUnderstandMsg == "The AI returned a response that we couldn't understand. Please try again."

InvalidFormatMsg == "AI returned an invalid response format."

UnknownErrorMsg == "An unknown error occurred."

Resolved(v) == [ok |-> TRUE, value |-> v, err |-> NoThrow]

Rejected(e) == [ok |-> FALSE, value |-> NoResult, err |-> e]

\* JSON.parse: whitespace around one JSON value is skipped; any other text is
\* a SyntaxError.
JSONParse(t) ==
  LET lead == WsRun(t, 1)
      rest == SubSeq(t, lead + 1, Len(t))
  IN  IF /\ Len(rest) >= 1
         /\ rest[1] \in JsonAtoms
         /\ WsRun(rest, 2) = Len(rest) - 1
      THEN Resolved(JsonValueOf(rest[1]))
      ELSE Rejected(Thrown("SyntaxError", "Unexpected token"))

\* Validate returning a copy of the value that leaves the optional phonetics
\* out.
ValidateDropsPhonetics(v) ==
  IF v.type = "null"
  THEN Rejected(Thrown("TypeError", "Cannot read properties of null (reading 'description')"))
  ELSE IF Falsy(v.description) \/ ~IsArray(v.keywords)
       THEN Rejected(Thrown("Error", InvalidFormatMsg))
       ELSE Resolved([v EXCEPT !.phonetics = NoPhonetics])

\* The basic validation; reading a property of null throws a TypeError.
Validate(v) ==
  IF v.type = "null"
  THEN Rejected(Thrown("TypeError", "Cannot read properties of null (reading 'description')"))
  ELSE IF Falsy(v.description) \/ ~IsArray(v.keywords)
       THEN Rejected(Thrown("Error", InvalidFormatMsg))
       ELSE Resolved(v)

\* The body of the try block, given what window.ai.prompt does.
TryBody(cap) ==
  IF cap.kind = "promptRejects"
  THEN Rejected(cap.err)
  ELSE LET parsed == JSONParse(CleanText(cap.text))
       IN  IF parsed.ok THEN Validate(parsed.value) ELSE parsed

\* The catch block: a SyntaxError becomes the user-friendly error, anything
\* else is thrown again.
CatchBlock(r) ==
  IF r.ok THEN r
  ELSE IF InstanceOfSyntaxError(r.err)
       THEN Rejected(Thrown("Error", CouldNotUnderstandMsg))
       ELSE r

\* getMockAIResponse: the fixed result.
MockResult ==
  JsObject("A cute, fluffy Corgi puppy is sitting on a vibrant green grass field.",
           Keywords(<<"corgi", "puppy", "grass", "dog", "cute">>),
           Phonetics({<<"corgi", "kor-gee">>, <<"puppy", "puh-pee">>, <<"grass", "gras">>,
                      <<"dog", "dog">>, <<"cute", "kyoot">>}))

\* A call of analyzeImage as its caller and window.ai see it: how the promise
\* settles, and whether window.ai.prompt was called on the way.
Call(r, prompted) == [ok |-> r.ok, value |-> r.value, err |-> r.err, prompted |-> prompted]

\* analyzeImage throwing where window.ai is missing or answers 'no', as the
\* comment in its first branch says it once did.
analyzeImageThrowsWhenUnavailable(cap) ==
  IF cap.kind \in {"absent", "no"}
  THEN Call(Rejected(Thrown("Error", "Chrome's built-in AI is not available.")), FALSE)
  ELSE IF cap.kind = "checkRejects" THEN Call(Rejected(cap.err), FALSE)
  ELSE Call(CatchBlock(TryBody(cap)), TRUE)

\* analyzeImage, given what the capability does during this call: window.ai
\* is absent, canCreateTextSession answers 'no' or rejects, prompt rejects
\* or answers a text.  Only the try block calls window.ai.prompt.
analyzeImage(cap) ==
  IF cap.kind \in {"absent", "no"} THEN Call(Resolved(MockResult), FALSE)
  ELSE IF cap.kind = "checkRejects" THEN Call(Rejected(cap.err), FALSE)
  ELSE Call(CatchBlock(TryBody(cap)), TRUE)

(***************************************************************************)
(* State.                                                                  *)
(***************************************************************************)

VARIABLES
  status,           \* ImageAnalyzer: useState<ProcessingStatus>('idle')
  result,           \* ImageAnalyzer: useState<AnalysisResult | null>(null)
  error,            \* ImageAnalyzer: useState<string | null>(null)
  imagePreviewUrl,  \* ImageAnalyzer: useState<string | null>(null)
  isCameraOpen,     \* ImageAnalyzer: useState(false), CameraCapture's isOpen
  nextCapture,      \* the number the next capture (file or snapshot) gets
  reads,            \* handleImageChange calls waiting for fileToBase64
  calls,            \* processAnalysis calls waiting for analyzeImage
  latestCall,       \* the capture of the most recent processAnalysis call, 0 for none
  blobs,            \* the captures URL.createObjectURL made a blob URL for
  revokeCalls,      \* per capture, the URL.revokeObjectURL calls on its blob URL
  hasSpeech,        \* whether window.speechSynthesis exists
  utterances,       \* the utterance queue of speechSynthesis: its head is speaking
  mediaSupported,   \* whether navigator.mediaDevices.getUserMedia exists
  isLoading,        \* CameraCapture: useState(true)
  camError,         \* CameraCapture: useState<string | null>(null)
  streamRef,        \* CameraCapture: streamRef.current, 0 for null
  videoSrc,         \* videoRef.current.srcObject, 0 when unset or unmounted
  metaPending,      \* the video element has yet to fire loadedmetadata
  requests,         \* getUserMedia calls not yet settled
  nextRequest,      \* the number the next getUserMedia call gets
  liveStreams,      \* the acquired streams whose tracks are running
  respText,         \* interpreter run: the response text
  ipc,              \* interpreter run: "off", "raw" or "done"
  cleaned,          \* interpreter run: the text handed to JSON.parse
  outcome           \* interpreter run: what analyzeImage settles with

analyzerVars == <<status, result, error, imagePreviewUrl, nextCapture, reads, calls,
                  latestCall, blobs, revokeCalls>>

speechVars == <<hasSpeech, utterances>>

cameraVars == <<isCameraOpen, mediaSupported, isLoading, camError, streamRef, videoSrc,
                metaPending, requests, nextRequest, liveStreams>>

interpVars == <<respText, ipc, cleaned, outcome>>

vars == <<analyzerVars, speechVars, cameraVars, interpVars>>

Captures == 1..MaxCaptures

Requests == 1..MaxOpens

\* What the capability can throw: an Error with a message, an Error with an
\* empty message (new Error(), new DOMException()), a value that is no Error.
RejectValues ==
  {Thrown("Error", "The model session failed."), Thrown("Error", ""), Thrown("NonError", "oops")}

Cap(kind, err, text) == [kind |-> kind, err |-> err, text |-> text]

TextCap(t) == Cap("text", NoThrow, t)

\* The response texts the completions of the state machine draw from.
ResponseTexts ==
  {<<"pCat">>, <<"F", "j", "w", "pCat", "w", "F">>, <<"x">>, <<"pNull">>,
   <<"pNoDesc">>, <<"pEmptyDesc">>, <<"pNoKw">>, <<"pKwString">>, <<"pNumber">>,
   <<"pArray">>, <<"F", "j", "pNoDesc", "F">>, <<"F", "j", "w", "pNull", "F">>}

\* What the capability can do during one analyzeImage call.
Capabilities ==
  {Cap("absent", NoThrow, << >>), Cap("no", NoThrow, << >>)}
    \cup {Cap("checkRejects", e, << >>) : e \in RejectValues}
    \cup {Cap("promptRejects", e, << >>) : e \in RejectValues}
    \cup {TextCap(t) : t \in ResponseTexts}

\* analyzeImage on each of them, computed once.
OutcomeOf == [cap \in Capabilities |-> analyzeImage(cap)]

\* processAnalysis sees of a capability only how analyzeImage settles, so the
\* completions drawn are one capability for each way of settling.
SettlesAlike(a, b) ==
  /\ OutcomeOf[a].ok = OutcomeOf[b].ok
  /\ OutcomeOf[a].value = OutcomeOf[b].value
  /\ OutcomeOf[a].err = OutcomeOf[b].err

Settlements ==
  {cap \in Capabilities : cap = CHOOSE d \in Capabilities : SettlesAlike(d, cap)}

InitAnalyzer ==
  /\ status = "idle"
  /\ result = NoResult
  /\ error = NoError
  /\ imagePreviewUrl = NoPreview
  /\ nextCapture = 1
  /\ reads = {}
  /\ calls = {}
  /\ latestCall = 0
  /\ blobs = {}
  /\ revokeCalls = [c \in Captures |-> 0]
  /\ utterances = NoUtterance

InitCamera ==
  /\ isCameraOpen = FALSE
  /\ isLoading = TRUE
  /\ camError = NoError
  /\ streamRef = 0
  /\ videoSrc = 0
  /\ metaPending = FALSE
  /\ requests = {}
  /\ nextRequest = 1
  /\ liveStreams = {}

InterpOff ==
  /\ respText = << >>
  /\ ipc = "off"
  /\ cleaned = << >>
  /\ outcome = Call(Rejected(NoThrow), FALSE)

Init ==
  /\ InitAnalyzer
  /\ InitCamera
  /\ InterpOff
  /\ hasSpeech = TRUE
  /\ mediaSupported \in BOOLEAN

(***************************************************************************)
(* ImageAnalyzer.                                                          *)
(***************************************************************************)

\* resetState taking every reset for a full one.
resetStateIgnoresFlag(fullReset) ==
  [revoke          |-> IF imagePreviewUrl # NoPreview /\ IsBlobUrl(imagePreviewUrl)
                       THEN imagePreviewUrl.id ELSE 0,
   imagePreviewUrl |-> NoPreview,
   status          |-> "idle",
   result          |-> NoResult,
   error           |-> NoError,
   utterances      |-> IF hasSpeech THEN NoUtterance ELSE utterances,
   threw           |-> ~hasSpeech]

\* resetState revoking whatever preview is held, without the 'blob:' test.
resetStateRevokesAnyUrl(fullReset) ==
  [revoke          |-> IF fullReset /\ imagePreviewUrl # NoPreview THEN imagePreviewUrl.id ELSE 0,
   imagePreviewUrl |-> IF fullReset THEN NoPreview ELSE imagePreviewUrl,
   status          |-> "idle",
   result          |-> NoResult,
   error           |-> NoError,
   utterances      |-> IF hasSpeech THEN NoUtterance ELSE utterances,
   threw           |-> ~hasSpeech]

\* resetState(fullReset): the values it sets, the capture whose blob URL it
\* revokes (0 for none), and whether its last statement,
\* window.speechSynthesis.cancel(), threw for want of speechSynthesis.  The
\* state setters it called before the throw still take effect.
resetState(fullReset) ==
  [revoke          |-> IF fullReset /\ imagePreviewUrl # NoPreview /\ IsBlobUrl(imagePreviewUrl)
                       THEN imagePreviewUrl.id ELSE 0,
   imagePreviewUrl |-> IF fullReset THEN NoPreview ELSE imagePreviewUrl,
   status          |-> "idle",
   result          |-> NoResult,
   error           |-> NoError,
   utterances      |-> IF hasSpeech THEN NoUtterance ELSE utterances,
   threw           |-> ~hasSpeech]

\* URL.revokeObjectURL on the blob URL of capture c (0: no call).
Revoke(c) == IF c = 0 THEN revokeCalls ELSE [revokeCalls EXCEPT ![c] = @ + 1]

\* processAnalysis up to its await: the partial reset, the new preview, the
\* processing status, and the analyzeImage call left pending.  When the
\* partial reset throws, the async function rejects there.
processAnalysis(c, previewUrl) ==
  LET r == resetState(FALSE)
  IN  /\ result' = r.result
      /\ error' = r.error
      /\ utterances' = r.utterances
      /\ revokeCalls' = Revoke(r.revoke)
      /\ IF r.threw
         THEN /\ status' = r.status
              /\ imagePreviewUrl' = r.imagePreviewUrl
              /\ UNCHANGED <<calls, latestCall>>
         ELSE /\ status' = "processing"
              /\ imagePreviewUrl' = previewUrl
              /\ calls' = calls \cup {c}
              /\ latestCall' = c

\* err instanceof Error ? err.message : "An unknown error occurred."
ErrorMessage(e) == IF InstanceOfError(e) THEN e.message ELSE UnknownErrorMsg

\* processAnalysis after its await: what the try and the catch set, given
\* what analyzeImage settled with.
Settle(r) ==
  IF r.ok
  THEN [status |-> "success", result |-> r.value, error |-> error]
  ELSE [status |-> "error", result |-> result, error |-> ErrorMessage(r.err)]

\* The file input's onChange with a file: the blob URL is made, then the
\* handler waits for fileToBase64.  The buttons that open the file input
\* are rendered in status idle only, and the camera view covers them.
handleImageChange ==
  /\ status = "idle"
  /\ ~isCameraOpen
  /\ nextCapture <= MaxCaptures
  /\ blobs' = blobs \cup {nextCapture}
  /\ reads' = reads \cup {nextCapture}
  /\ nextCapture' = nextCapture + 1
  /\ UNCHANGED <<status, result, error, imagePreviewUrl, calls, latestCall, revokeCalls>>
  /\ UNCHANGED <<speechVars, cameraVars, interpVars>>

\* fileToBase64 resolves: handleImageChange goes on to processAnalysis.
fileToBase64Resolved(c) ==
  /\ c \in reads
  /\ reads' = reads \ {c}
  /\ processAnalysis(c, BlobUrl(c))
  /\ UNCHANGED <<nextCapture, blobs, hasSpeech>>
  /\ UNCHANGED <<cameraVars, interpVars>>

\* fileToBase64 rejects (reader.onerror): handleImageChange ends there.
fileToBase64Rejected(c) ==
  /\ c \in reads
  /\ reads' = reads \ {c}
  /\ UNCHANGED <<status, result, error, imagePreviewUrl, nextCapture, calls, latestCall,
                 blobs, revokeCalls>>
  /\ UNCHANGED <<speechVars, cameraVars, interpVars>>

\* analyzeImage settles for the processAnalysis call of capture c.
analyzeImageSettled(c, cap) ==
  /\ c \in calls
  /\ calls' = calls \ {c}
  /\ LET s == Settle(OutcomeOf[cap])
     IN  /\ status' = s.status
         /\ result' = s.result
         /\ error' = s.error
  /\ UNCHANGED <<imagePreviewUrl, nextCapture, reads, latestCall, blobs, revokeCalls>>
  /\ UNCHANGED <<speechVars, cameraVars, interpVars>>

\* Whether a button calling resetState(true) is rendered: "Try Again" in
\* status error, "Analyze Another Image" in status success with a result.
ResetButtonShown == status = "error" \/ (status = "success" /\ result # NoResult)

\* A click on it: resetState(true).
clickReset ==
  /\ ResetButtonShown
  /\ LET r == resetState(TRUE)
     IN  /\ status' = r.status
         /\ result' = r.result
         /\ error' = r.error
         /\ imagePreviewUrl' = r.imagePreviewUrl
         /\ utterances' = r.utterances
         /\ revokeCalls' = Revoke(r.revoke)
  /\ UNCHANGED <<nextCapture, reads, calls, latestCall, blobs, hasSpeech>>
  /\ UNCHANGED <<cameraVars, interpVars>>

(***************************************************************************)
(* speak.                                                                  *)
(***************************************************************************)

\* The texts the speaker buttons of the success view pass to speak; the
\* clicks drawn are those on the description and on the first keyword.
SpeakableTexts ==
  IF status = "success" /\ result # NoResult
  THEN {result.description}
         \cup (IF result.keywords.items = << >> THEN {} ELSE {Head(result.keywords.items)})
  ELSE {}

\* speak without its cancel(): the new utterance joins the queue.
speakWithoutCancel(text) == IF hasSpeech THEN Append(utterances, text) ELSE utterances

\* speak(text): nothing without speechSynthesis; else cancel(), which empties
\* the queue, then speechSynthesis.speak, which appends the new utterance.
speak(text) == IF hasSpeech THEN Append(NoUtterance, text) ELSE utterances

clickSpeak(text) ==
  /\ text \in SpeakableTexts
  /\ utterances' = speak(text)
  /\ UNCHANGED <<analyzerVars, hasSpeech, cameraVars, interpVars>>

\* The utterance speaking has been spoken to its end; the next one queued
\* starts.
utteranceEnd ==
  /\ utterances # NoUtterance
  /\ utterances' = Tail(utterances)
  /\ UNCHANGED <<analyzerVars, hasSpeech, cameraVars, interpVars>>

(***************************************************************************)
(* CameraCapture.                                                          *)
(***************************************************************************)

CameraGenericMsg == "Could not access the camera. Please ensure you have a webcam connected and have granted permission in your browser."

CameraDeniedMsg == "Camera access was denied. Please grant permission in your browser settings to use this feature."

CameraNotFoundMsg == "No camera was found. Please make sure a webcam is connected."

\* The message the catch block of startCamera picks for a rejection name.
CameraMessage(name) ==
  CASE name = "NotAllowedError" -> CameraDeniedMsg
    [] name = "NotFoundError"   -> CameraNotFoundMsg
    [] OTHER                    -> CameraGenericMsg

RejectionNames == {"NotAllowedError", "NotReadableError"}

\* stopCamera: the tracks of streamRef.current are stopped and the ref is
\* cleared; nothing when the ref is null.
stopCamera == [liveStreams |-> liveStreams \ {streamRef}, streamRef |-> 0]

\* The effect with isOpen false, and the cleanup of the effect before it:
\* stopCamera.  The video element is unmounted with the view.
closeView ==
  /\ isCameraOpen' = FALSE
  /\ liveStreams' = stopCamera.liveStreams
  /\ streamRef' = stopCamera.streamRef
  /\ videoSrc' = 0
  /\ metaPending' = FALSE
  /\ UNCHANGED <<mediaSupported, isLoading, camError, requests, nextRequest>>

\* A camera button on a desktop browser: setIsCameraOpen(true); the cleanup
\* of the effect before runs stopCamera, then the effect runs startCamera up
\* to its await, or, without getUserMedia, through its throw and catch.
handleCameraButtonClick ==
  /\ status = "idle"
  /\ ~isCameraOpen
  /\ nextRequest <= MaxOpens
  /\ isCameraOpen' = TRUE
  /\ liveStreams' = stopCamera.liveStreams
  /\ streamRef' = stopCamera.streamRef
  /\ IF mediaSupported
     THEN /\ isLoading' = TRUE
          /\ camError' = NoError
          /\ requests' = requests \cup {nextRequest}
          /\ nextRequest' = nextRequest + 1
     ELSE /\ isLoading' = FALSE
          /\ camError' = CameraGenericMsg
          /\ UNCHANGED <<requests, nextRequest>>
  /\ UNCHANGED <<mediaSupported, videoSrc, metaPending>>
  /\ UNCHANGED <<analyzerVars, speechVars, interpVars>>

\* The X button of the view: onClose.
onClose ==
  /\ isCameraOpen
  /\ closeView
  /\ UNCHANGED <<analyzerVars, speechVars, interpVars>>

\* getUserMedia of request r resolves with a stream: startCamera stores it
\* in streamRef and, when the video element is mounted, makes it its source.
getUserMediaResolved(r) ==
  /\ r \in requests
  /\ requests' = requests \ {r}
  /\ liveStreams' = liveStreams \cup {r}
  /\ streamRef' = r
  /\ IF isCameraOpen
     THEN videoSrc' = r /\ metaPending' = TRUE
     ELSE UNCHANGED <<videoSrc, metaPending>>
  /\ UNCHANGED <<isCameraOpen, mediaSupported, isLoading, camError, nextRequest>>
  /\ UNCHANGED <<analyzerVars, speechVars, interpVars>>

\* getUserMedia of request r rejects: the catch block of startCamera.
getUserMediaRejected(r, name) ==
  /\ r \in requests
  /\ requests' = requests \ {r}
  /\ camError' = CameraMessage(name)
  /\ isLoading' = FALSE
  /\ UNCHANGED <<isCameraOpen, mediaSupported, streamRef, videoSrc, metaPending, nextRequest,
                 liveStreams>>
  /\ UNCHANGED <<analyzerVars, speechVars, interpVars>>

\* The video element fires loadedmetadata for its source.
onloadedmetadata ==
  /\ isCameraOpen
  /\ metaPending
  /\ metaPending' = FALSE
  /\ isLoading' = FALSE
  /\ UNCHANGED <<isCameraOpen, mediaSupported, camError, streamRef, videoSrc, requests,
                 nextRequest, liveStreams>>
  /\ UNCHANGED <<analyzerVars, speechVars, interpVars>>

\* Whether the Snap Photo button is rendered.
SnapButtonShown == isCameraOpen /\ ~isLoading /\ camError = NoError

\* Snap Photo: handleCapture draws the frame, hands the data URL to
\* handleCameraCapture, which calls processAnalysis, and closes the view.
handleCapture ==
  /\ SnapButtonShown
  /\ nextCapture <= MaxCaptures
  /\ nextCapture' = nextCapture + 1
  /\ processAnalysis(nextCapture, DataUrl(nextCapture))
  /\ closeView
  /\ UNCHANGED <<reads, blobs, hasSpeech, interpVars>>

(***************************************************************************)
(* The application.                                                        *)
(***************************************************************************)

Next ==
  \/ handleImageChange
  \/ \E c \in Captures : fileToBase64Resolved(c)
  \/ \E c \in Captures : fileToBase64Rejected(c)
  \/ \E c \in Captures, cap \in Settlements : analyzeImageSettled(c, cap)
  \/ clickReset
  \/ \E text \in SpeakableTexts : clickSpeak(text)
  \/ utteranceEnd
  \/ handleCameraButtonClick
  \/ onClose
  \/ \E r \in Requests : getUserMediaResolved(r)
  \/ \E r \in Requests, name \in RejectionNames : getUserMediaRejected(r, name)
  \/ onloadedmetadata
  \/ handleCapture

Spec == Init /\ [][Next]_vars

(***************************************************************************)
(* The application in a browser without window.speechSynthesis.  There     *)
(* processAnalysis rejects at its first statement, so status stays idle:   *)
(* no analyzeImage call is ever pending and the success and error views,   *)
(* with their reset and speaker buttons, are never rendered.               *)
(***************************************************************************)

InitNoSpeech ==
  /\ InitAnalyzer
  /\ InitCamera
  /\ InterpOff
  /\ hasSpeech = FALSE
  /\ mediaSupported \in BOOLEAN

NextNoSpeech ==
  \/ handleImageChange
  \/ \E c \in Captures : fileToBase64Resolved(c)
  \/ \E c \in Captures : fileToBase64Rejected(c)
  \/ handleCameraButtonClick
  \/ onClose
  \/ \E r \in Requests : getUserMediaResolved(r)
  \/ \E r \in Requests, name \in RejectionNames : getUserMediaRejected(r, name)
  \/ onloadedmetadata
  \/ handleCapture

SpecNoSpeech == InitNoSpeech /\ [][NextNoSpeech]_vars

(***************************************************************************)
(* The interpreter alone, on every response text up to MaxTextLen.         *)
(***************************************************************************)

InterpTokens == {"F", "j", "w", "x", "pCat"}

InterpTexts == UNION {[1..n -> InterpTokens] : n \in 0..MaxTextLen}

InitInterp ==
  /\ InitAnalyzer
  /\ InitCamera
  /\ hasSpeech = TRUE
  /\ mediaSupported = TRUE
  /\ respText \in InterpTexts
  /\ ipc = "raw"
  /\ cleaned = << >>
  /\ outcome = Call(Rejected(NoThrow), FALSE)

\* One analyzeImage call whose window.ai.prompt answers respText.
interpret ==
  /\ ipc = "raw"
  /\ ipc' = "done"
  /\ cleaned' = CleanText(respText)
  /\ outcome' = analyzeImage(TextCap(respText))
  /\ UNCHANGED <<respText, analyzerVars, speechVars, cameraVars>>

NextInterp == interpret

SpecInterp == InitInterp /\ [][NextInterp]_vars

(***************************************************************************)
(* Properties of the analysis state machine.                               *)
(***************************************************************************)

\* A processAnalysis call that a later call has superseded.
Superseded(c) == c \in calls /\ c # latestCall

\* C1: when two processAnalysis calls are pending together, the completion of
\* the superseded one, success or failure, before or after the completion of
\* the later one, leaves status, result and error as they are.
C1_SupersededCompletionDiscarded ==
  [][\A c \in Captures, cap \in Capabilities :
       (Superseded(c) /\ analyzeImageSettled(c, cap)) => UNCHANGED <<status, result, error>>]_vars

\* C2: in every reachable state result is non-null exactly in status success
\* and error is non-null exactly in status error.
C2_ResultAndErrorFollowStatus ==
  /\ (result # NoResult) <=> (status = "success")
  /\ (error # NoError) <=> (status = "error")

\* C3: while the camera view is closed no acquired stream has running tracks,
\* and never is more than one acquired stream live.
C3_StreamsTornDown ==
  /\ ~isCameraOpen => liveStreams = {}
  /\ Cardinality(liveStreams) <= 1

\* The blob URL of capture c has been released.
Released(c) == revokeCalls[c] >= 1

\* C4: every blob URL made for a file capture is, once its file read has
\* settled, either the held preview or released: a replaced or cleared
\* preview has been released, and a failed read leaves no unreleased URL.
C4_BlobHeldOrReleased ==
  \A c \in blobs : c \in reads \/ imagePreviewUrl = BlobUrl(c) \/ Released(c)

\* C5: resetState(true) leaves status idle, result and error null and the
\* preview cleared; it releases the held preview's blob URL, not released
\* before, exactly once, and makes no other release call (none when no
\* preview is held, none for a data URL, which has no resource behind it).
C5_FullResetClearsAndReleasesOnce ==
  [][clickReset =>
       /\ status' = "idle"
       /\ result' = NoResult
       /\ error' = NoError
       /\ imagePreviewUrl' = NoPreview
       /\ \A c \in Captures :
            IF imagePreviewUrl = BlobUrl(c)
            THEN revokeCalls[c] = 0 /\ revokeCalls'[c] = 1
            ELSE revokeCalls'[c] = revokeCalls[c]]_vars

\* A full reset has released a held blob URL.
C5_Witness ==
  /\ status = "idle"
  /\ imagePreviewUrl = NoPreview
  /\ \E c \in blobs : Released(c)

\* The edges of the status graph.
StatusEdges ==
  {<<"idle", "processing">>, <<"processing", "success">>, <<"processing", "error">>,
   <<"success", "idle">>, <<"error", "idle">>, <<"success", "processing">>,
   <<"error", "processing">>}

\* C6: every change of status follows an edge of the status graph; status
\* never goes from idle straight to success or error.
C6_StatusFollowsEdges == [][status' # status => <<status, status'>> \in StatusEdges]_vars

(***************************************************************************)
(* Properties of the interpretation of a response.                         *)
(***************************************************************************)

\* The JSON values with a non-empty description and an array keywords.
ValidAtoms ==
  {tok \in JsonAtoms :
     LET v == JsonValueOf(tok)
     IN  v.type = "object" /\ v.description \notin {UNDEF, ""} /\ v.keywords.kind = "array"}

\* The text t is the JSON text tok, bare or inside a fence.
Carries(t, tok) ==
  \E i \in DOMAIN t : t[i] = tok /\ \A k \in DOMAIN t \ {i} : t[k] \in {"F", "j", "w"}

\* C7: the first capture of a run, alone: its processAnalysis call takes
\* status from idle to processing, status is still processing when its
\* analyzeImage settles, and when the capability answered the text of a JSON
\* value with a non-empty description and an array keywords the completion
\* sets status success and stores exactly that value, with no error.
C7_SingleCaptureSucceedsWithPayload ==
  [][/\ (calls = {} /\ calls' = {1} /\ nextCapture' = 2)
          => (status = "idle" /\ status' = "processing")
     /\ (nextCapture = 2 /\ calls = {1} /\ calls' = {})
          => \A t \in ResponseTexts, tok \in ValidAtoms :
               (Carries(t, tok) /\ analyzeImageSettled(1, TextCap(t)))
                 => /\ status = "processing"
                    /\ status' = "success"
                    /\ result' = JsonValueOf(tok)
                    /\ error' = NoError]_vars

\* The only capture of the run has succeeded with the payload of the
\* specification's example.
C7_Witness ==
  /\ nextCapture = 2
  /\ latestCall = 1
  /\ calls = {}
  /\ status = "success"
  /\ result = JsObject("A cat.", Keywords(<<"cat">>), Phonetics({<<"cat", "kat">>}))
  /\ error = NoError

\* The interpretation fails: the capability rejects, or its text is not that
\* of a valid JSON value.
Fails(cap) ==
  \/ cap.kind \in {"checkRejects", "promptRejects"}
  \/ cap.kind = "text" /\ ~\E tok \in ValidAtoms : Carries(cap.text, tok)

\* C8: every completion of a failed interpretation sets status error and
\* stores a non-empty error message.
C8_FailureStoresNonEmptyMessage ==
  [][\A c \in Captures, cap \in Capabilities :
       (Fails(cap) /\ analyzeImageSettled(c, cap))
         => (status' = "error" /\ error' \notin {NoError, ""})]_vars

\* C9: a response that decodes as JSON but is structurally invalid (no
\* description, an empty one, keywords that is no array, no object at all)
\* fails with the invalid response format message.
C9_InvalidStructureIsInterpretationError ==
  [][\A c \in Captures, t \in ResponseTexts, tok \in JsonAtoms \ ValidAtoms :
       (Carries(t, tok) /\ analyzeImageSettled(c, TextCap(t)))
         => (status' = "error" /\ error' = InvalidFormatMsg)]_vars

\* t without its leading whitespace.
RECURSIVE TrimLeft(_)
TrimLeft(t) == IF t # << >> /\ Head(t) = "w" THEN TrimLeft(Tail(t)) ELSE t

\* t without its trailing whitespace.
RECURSIVE TrimRight(_)
TrimRight(t) ==
  IF t # << >> /\ t[Len(t)] = "w" THEN TrimRight(SubSeq(t, 1, Len(t) - 1)) ELSE t

\* The positions where a fenced block opens: ```json with a ``` after it.
FenceOpenings(t) ==
  {i \in 1..Len(t) :
     /\ i + 1 <= Len(t)
     /\ t[i] = "F"
     /\ t[i + 1] = "j"
     /\ \E f \in (i + 2)..Len(t) : t[f] = "F"}

\* The contents of the first fenced block of t, without the delimiters and
\* the whitespace around the contents.
FencedContents(t) ==
  LET i == CHOOSE o \in FenceOpenings(t) : \A q \in FenceOpenings(t) : o <= q
      f == CHOOSE e \in (i + 2)..Len(t) :
             t[e] = "F" /\ \A q \in (i + 2)..(e - 1) : t[q] # "F"
  IN  TrimRight(TrimLeft(SubSeq(t, i + 2, f - 1)))

\* C10: the text handed to JSON.parse is the contents of the fenced block
\* when the response has one, and the response unchanged when it has none.
C10_DecoderGetsFencedContentsOrText ==
  ipc = "done" =>
    cleaned = (IF FenceOpenings(respText) # {} THEN FencedContents(respText) ELSE respText)

\* A fenced payload with whitespace on both sides has been cleaned.
C10_Witness ==
  /\ ipc = "done"
  /\ respText = <<"F", "j", "w", "pCat", "w", "F">>
  /\ cleaned = <<"pCat">>
  /\ outcome.ok

(***************************************************************************)
(* Properties of speech, the mock fallback and the capture views.          *)
(***************************************************************************)

\* C11: a speak call leaves exactly its own utterance in the queue, whatever
\* was speaking before; the queue never holds more than one utterance, and
\* only a speak call puts one there, so what is speaking is the utterance of
\* the most recent call.
C11_NewestUtteranceOnly ==
  [][/\ Len(utterances') <= 1
     /\ \A text \in SpeakableTexts : clickSpeak(text) => utterances' = <<text>>
     /\ (utterances' # utterances /\ utterances' # NoUtterance)
          => \E text \in SpeakableTexts : clickSpeak(text)]_vars

\* The first keyword of the example result is speaking, alone.
C11_Witness ==
  /\ status = "success"
  /\ result.description = "A cat."
  /\ utterances = <<"cat">>

\* The capabilities with window.ai absent or canCreateTextSession answering
\* 'no'.
Unavailable == {cap \in Capabilities : cap.kind \in {"absent", "no"}}

\* C12: with window.ai absent or canCreateTextSession answering 'no',
\* analyzeImage never calls window.ai.prompt and resolves with the one mock
\* result, so the completion of that capture sets status success and stores
\* the mock result, with no error message written.
C12_UnavailableMeansMock ==
  [][\A c \in calls \ calls' : \A cap \in Unavailable :
       /\ ~OutcomeOf[cap].prompted
       /\ OutcomeOf[cap].ok
       /\ OutcomeOf[cap].value = MockResult
       /\ analyzeImageSettled(c, cap) =>
            /\ status' = "success"
            /\ result' = MockResult
            /\ error' = error]_vars

\* A capture has completed with the mock result.
C12_Witness ==
  /\ status = "success"
  /\ result = MockResult
  /\ error = NoError

\* What processAnalysis leaves when it has set status processing for a
\* capture with the preview url: no result, no error, nothing speaking, the
\* new preview held, and no revokeObjectURL call made.
SubmittedWith(url) ==
  status' = "processing" =>
    /\ result' = NoResult
    /\ error' = NoError
    /\ utterances' = NoUtterance
    /\ imagePreviewUrl' = url
    /\ revokeCalls' = revokeCalls

\* C13: every processAnalysis step that sets status processing, from
\* whatever state it starts, leaves the result and the error cleared, the
\* speech cancelled and the preview of the new capture held; the partial
\* reset keeps the preview it finds and revokes nothing.
C13_SubmitClearsAndHoldsNewPreview ==
  [][/\ \A c \in Captures : fileToBase64Resolved(c) => SubmittedWith(BlobUrl(c))
     /\ handleCapture => SubmittedWith(DataUrl(nextCapture))
     /\ resetState(FALSE).imagePreviewUrl = imagePreviewUrl
     /\ resetState(FALSE).revoke = 0]_vars

\* The second capture was submitted while the first was still processing:
\* its preview is held and the first capture's blob URL is not revoked.
C13_Witness ==
  /\ status = "processing"
  /\ calls = {1, 2}
  /\ latestCall = 2
  /\ imagePreviewUrl = BlobUrl(2)
  /\ result = NoResult
  /\ error = NoError
  /\ revokeCalls[1] = 0

\* C14: without window.speechSynthesis no speech step fails or has an
\* effect: speak leaves the queue as it is, the cancel() of resetState does
\* not throw, every processAnalysis step sets status processing and every
\* reset click sets idle.
C14_NoSpeechIsNoOp ==
  [][~hasSpeech =>
       /\ \A text \in SpeakableTexts : clickSpeak(text) => utterances' = utterances
       /\ \A c \in Captures : fileToBase64Resolved(c) =>
            (~resetState(FALSE).threw /\ status' = "processing")
       /\ handleCapture => (~resetState(FALSE).threw /\ status' = "processing")
       /\ clickReset => (~resetState(TRUE).threw /\ status' = "idle")]_vars

\* C15: whenever status is processing, success or error, a preview is
\* held.
C15_PreviewHeldOutsideIdle == status # "idle" => imagePreviewUrl # NoPreview

\* C16: a Snap Photo step happens only with the view open, not loading and
\* without a camera error, while the video element shows a live stream whose
\* metadata has loaded; it takes one capture and closes the view.
C16_SnapshotOnlyFromLoadedLiveStream ==
  [][handleCapture =>
       /\ isCameraOpen
       /\ ~isLoading
       /\ camError = NoError
       /\ videoSrc # 0
       /\ videoSrc \in liveStreams
       /\ ~metaPending
       /\ nextCapture' = nextCapture + 1
       /\ ~isCameraOpen']_vars

====
